---- MODULE Spec2Model ----
(***************************************************************************)
(* State-machine model of quack's ReductionBase (src/quack/                *)
(* reduction_base.py): the host-side geometry planning (_get_tv_layout,    *)
(* _smem_size_in_bytes, _get_reduction_buffer_layout,                      *)
(* _allocate_reduction_buffer_and_mbar) and the per-thread device-side     *)
(* barrier set-up (_initialize_cluster) run by the threads of every block  *)
(* of a cluster.                                                           *)
(***************************************************************************)
EXTENDS Integers, Sequences, FiniteSets

VARIABLES
    dtype,              \* self.dtype            (name of a cutlass numeric type)
    N,                  \* self.N
    stage,              \* self.stage
    reduction_dtype,    \* self.reduction_dtype
    cluster_n,          \* self.cluster_n        (0: attribute not set yet)
    phase,              \* where the caller is in the planning pipeline
    error,              \* the assertion that aborted planning, or "none"
    policy_calls,       \* how often _calculate_threads_per_row was consulted
    tiler_mn,           \* result of _get_tv_layout, <<>> while absent
    tv_layout,          \* result of _get_tv_layout, NoLayout while absent
    smem_size,          \* result of _smem_size_in_bytes, -1 while absent
    reduction_buffer,   \* layout of the allocated reduction buffer
    mbar_ptr,           \* the barrier array handle (None when not allocated)
    pc,                 \* pc[b][t]: next instruction of thread t of block b
    mbar,               \* mbar[b][i]: the barrier word at mbar_ptr + i of block b
    fenced,             \* fenced[b][t]: thread issued mbarrier_init_fence
    arrived             \* arrived[b][t]: thread issued cluster_arrive_relaxed

objVars == <<dtype, N, stage, reduction_dtype>>
planVars == <<cluster_n, phase, error, policy_calls, tiler_mn, tv_layout,
              smem_size, reduction_buffer, mbar_ptr>>
devVars == <<pc, mbar, fenced, arrived>>
vars == <<objVars, planVars, devVars>>

----------------------------------------------------------------------------
(* Bounds of the model *)

\* small row lengths 1..MaxSmallN are constructor inputs
MaxSmallN == 16
\* row lengths within NearThreshold of the 128/256-thread threshold are inputs
NearThreshold == 8
\* stage counts 1..MaxStage are constructor inputs
MaxStage == 2
\* tiles of more than MaxTileElems elements are not planned by the model
MaxTileElems == 20000

(* Program constants *)

COPY_BITS == 128
WARP_SIZE == 32
THREADS_SMALL == 128
THREADS_LARGE == 256
N_THRESHOLD == 16384
INT64_WIDTH == 64

\* torch2cute_dtype_map: the element types a kernel is built for
DTypes == {"Float16", "BFloat16", "Float32"}
\* accumulator types (the default Float32, and a 16-bit one)
ReductionDTypes == {"Float32", "Float16"}

\* the .width property of a cutlass numeric type
Width(d) == IF d = "Float32" THEN 32 ELSE 16

\* cluster sizes a subclass's _set_cluster_n selects
ClusterSizes == {1, 2, 4}
\* cluster sizes whose blocks are run thread by thread
DeviceClusterSizes == {1, 2}

\* the row lengths used as constructor inputs
NValues == (1..MaxSmallN) \cup {510, 512}
           \cup ((N_THRESHOLD - NearThreshold)..(N_THRESHOLD + NearThreshold))

\* logical thread indices run on the device: the first MaxStage threads of a
\* block (the only ones that can own a barrier) and one thread beyond them
Tids == 0..MaxStage

Max(a, b) == IF a >= b THEN a ELSE b

----------------------------------------------------------------------------
(* Layout algebra (cute), as far as the program uses it *)

NoLayout == [shape |-> <<>>, stride |-> <<>>]
NoBuffer == [shape |-> <<>>, stride |-> <<>>]
NoMbar == [allocated |-> FALSE, num_elems |-> 0]

\* cute.ceil_div
CeilDivFloor(a, b) == a \div b
CeilDiv(a, b) == (a + b - 1) \div b

\* vecsize = copy_bits // self.dtype.width
VecSize(d) == COPY_BITS \div Width(d)

\* the assertion of _get_tv_layout that N is a multiple of the vector size
NDivisibleUnchecked(d, n) == TRUE
NDivisible(d, n) == n % VecSize(d) = 0

\* _get_num_threads
GetNumThreads(n) == IF n <= N_THRESHOLD THEN THREADS_SMALL ELSE THREADS_LARGE

\* num_blocks_N = ceil_div(N // vecsize, threads_per_row * cluster_n)
NumBlocksN(d, n, tpr, c) == CeilDiv(n \div VecSize(d), tpr * c)

\* cols_per_block = num_threads // threads_per_row
ColsPerBlock(n, tpr) == GetNumThreads(n) \div tpr

\* tiler_mn = (cols_per_block, vecsize * num_blocks_N * threads_per_row)
TilerMN(d, n, tpr, c) ==
    <<ColsPerBlock(n, tpr), VecSize(d) * NumBlocksN(d, n, tpr, c) * tpr>>

\* the stride argument of cute.make_layout in _get_tv_layout
TvStrideNoCols(d, n, tpr, c) ==
    <<<<1, VecSize(d)>>,
      <<ColsPerBlock(n, tpr), ColsPerBlock(n, tpr) * VecSize(d) * tpr>>>>
TvStride(d, n, tpr, c) ==
    <<<<1, VecSize(d) * ColsPerBlock(n, tpr)>>,
      <<ColsPerBlock(n, tpr), ColsPerBlock(n, tpr) * VecSize(d) * tpr>>>>

\* tv_layout = cute.make_layout(((cols_per_block, threads_per_row),
\*                               (vecsize, num_blocks_N)), stride=...)
TvLayout(d, n, tpr, c) ==
    [shape  |-> <<<<ColsPerBlock(n, tpr), tpr>>,
                  <<VecSize(d), NumBlocksN(d, n, tpr, c)>>>>,
     stride |-> TvStride(d, n, tpr, c)]

\* the values _calculate_threads_per_row may return for a block of nt threads:
\* the thread counts that divide the block
ThreadsPerRowChoices(nt) == {t \in 1..nt : nt % t = 0}

\* the offset a two-level layout assigns to coordinate ((i, j), (k, l))
TvOffset(L, i, j, k, l) ==
    i * L.stride[1][1] + j * L.stride[1][2]
    + k * L.stride[2][1] + l * L.stride[2][2]

\* cute.size(layout): the number of coordinates of a two-level layout
TvSize(L) == L.shape[1][1] * L.shape[1][2] * L.shape[2][1] * L.shape[2][2]

\* cute.size(make_layout(tiler_mn)) for the compact tile
TileElems(t) == t[1] * t[2]

\* cute.size_in_bytes(self.dtype, cute.make_layout(tiler_mn))
SizeInBytes(d, t) == (TileElems(t) * Width(d)) \div 8

\* _smem_size_in_bytes
SmemSizeOneBarrier(d, rd, stg, c, t, nw) ==
    SizeInBytes(d, t) + stg * nw * c * (Width(rd) \div 8) + (INT64_WIDTH \div 8)
SmemSize(d, rd, stg, c, t, nw) ==
    SizeInBytes(d, t)
    + stg * nw * c * (Width(rd) \div 8)
    + stg * (INT64_WIDTH \div 8)

\* num_warps = cute.size(tv_layout, mode=[0]) // WARP_SIZE
NumWarps(L) == (L.shape[1][1] * L.shape[1][2]) \div WARP_SIZE

\* warps_per_row = max_constexpr(tv_layout.shape[0][0] // WARP_SIZE, 1)
WarpsPerRow(L) == Max(L.shape[1][1] \div WARP_SIZE, 1)

\* cute.make_ordered_layout(shape, order=(1, 0, 2)) for a shape
\* (d0, (d10, d11), d2): mode 1 gets the smallest strides (compact inside),
\* then mode 0, then mode 2
OrderedStrideStageFirst(s) ==
    <<s[3] * s[2][1] * s[2][2], <<s[3], s[3] * s[2][1]>>, 1>>
OrderedStride(s) ==
    <<s[2][1] * s[2][2], <<1, s[2][1]>>, s[1] * s[2][1] * s[2][2]>>

\* _get_reduction_buffer_layout
GetReductionBufferLayout(L, c, stg) ==
    LET shape == <<NumWarps(L) \div WarpsPerRow(L), <<WarpsPerRow(L), c>>, stg>>
    IN  [shape |-> shape, stride |-> OrderedStride(shape)]

\* the offset of slot (w, (r, m), s) of a reduction buffer layout
BufOffset(B, w, r, m, s) ==
    w * B.stride[1] + r * B.stride[2][1] + m * B.stride[2][2] + s * B.stride[3]

\* cutlass.const_expr(self.cluster_n > 1)
ClusterAlways(c) == c >= 1
ClusterEnabled(c) == c > 1

\* the byte count handed to mbarrier_init_tx_bytes
TxBytesOneBlock(nw, c, rd) == (nw * Width(rd)) \div 8
TxBytes(nw, c, rd) == (nw * c * Width(rd)) \div 8

----------------------------------------------------------------------------
(* Construction *)

TypeInit(ns, ds, rds) ==
    /\ dtype \in ds
    /\ N \in ns
    /\ stage \in 1..MaxStage
    /\ reduction_dtype \in rds
    /\ cluster_n = 0
    /\ phase = "constructed"
    /\ error = "none"
    /\ policy_calls = 0
    /\ tiler_mn = <<>>
    /\ tv_layout = NoLayout
    /\ smem_size = -1
    /\ reduction_buffer = NoBuffer
    /\ mbar_ptr = NoMbar
    /\ pc = <<>>
    /\ mbar = <<>>
    /\ fenced = <<>>
    /\ arrived = <<>>

\* __init__ with any element type, row length, stage count, accumulator type
Init == TypeInit(NValues, DTypes, ReductionDTypes)

----------------------------------------------------------------------------
(* Host-side planning *)

\* _set_cluster_n (1 in the base class; a subclass picks the cluster size)
SetClusterN(sizes) ==
    /\ phase = "constructed"
    /\ \E c \in sizes : cluster_n' = c
    /\ phase' = "configured"
    /\ UNCHANGED <<objVars, error, policy_calls, tiler_mn, tv_layout,
                   smem_size, reduction_buffer, mbar_ptr, devVars>>

\* _get_tv_layout
GetTvLayout ==
    /\ phase = "configured"
    /\ IF ~NDivisible(dtype, N)
       THEN /\ error' = "N not divisible by vector size"
            /\ phase' = "failed"
            /\ UNCHANGED <<policy_calls, tiler_mn, tv_layout>>
       ELSE IF GetNumThreads(N) % WARP_SIZE # 0
       THEN /\ error' = "num_threads not a multiple of WARP_SIZE"
            /\ phase' = "failed"
            /\ UNCHANGED <<policy_calls, tiler_mn, tv_layout>>
       ELSE \E tpr \in ThreadsPerRowChoices(GetNumThreads(N)) :
            /\ TileElems(TilerMN(dtype, N, tpr, cluster_n)) <= MaxTileElems
            /\ policy_calls' = policy_calls + 1
            /\ tiler_mn' = TilerMN(dtype, N, tpr, cluster_n)
            /\ tv_layout' = TvLayout(dtype, N, tpr, cluster_n)
            /\ phase' = "planned"
            /\ UNCHANGED error
    /\ UNCHANGED <<objVars, cluster_n, smem_size, reduction_buffer, mbar_ptr,
                   devVars>>

\* _smem_size_in_bytes(tiler_mn, num_warps), called with the tile and the
\* warp count of the planned layout
SmemSizeInBytes ==
    /\ phase = "planned"
    /\ smem_size' = SmemSize(dtype, reduction_dtype, stage, cluster_n,
                             tiler_mn, NumWarps(tv_layout))
    /\ phase' = "sized"
    /\ UNCHANGED <<objVars, cluster_n, error, policy_calls, tiler_mn,
                   tv_layout, reduction_buffer, mbar_ptr, devVars>>

FreshBarrier == [init_cnt |-> 0, arrive_cnt |-> 0, init_by |-> -1,
                 tx_cnt |-> 0, tx_bytes |-> 0, tx_by |-> -1]

\* _allocate_reduction_buffer_and_mbar, run identically by every block of the
\* cluster; the blocks' threads then stand at the call of _initialize_cluster
AllocateReductionBufferAndMbar ==
    /\ phase = "sized"
    /\ reduction_buffer' = GetReductionBufferLayout(tv_layout, cluster_n, stage)
    /\ mbar_ptr' = IF ClusterEnabled(cluster_n)
                   THEN [allocated |-> TRUE, num_elems |-> stage]
                   ELSE NoMbar
    /\ phase' = "allocated"
    /\ pc' = [b \in 0..(cluster_n - 1) |-> [t \in Tids |-> "call"]]
    /\ mbar' = [b \in 0..(cluster_n - 1) |-> [i \in Tids |-> FreshBarrier]]
    /\ fenced' = [b \in 0..(cluster_n - 1) |-> [t \in Tids |-> FALSE]]
    /\ arrived' = [b \in 0..(cluster_n - 1) |-> [t \in Tids |-> FALSE]]
    /\ UNCHANGED <<objVars, cluster_n, error, policy_calls, tiler_mn,
                   tv_layout, smem_size>>

NextPlan ==
    \/ SetClusterN(ClusterSizes)
    \/ GetTvLayout
    \/ SmemSizeInBytes
    \/ AllocateReductionBufferAndMbar

Spec == Init /\ [][NextPlan]_vars

----------------------------------------------------------------------------
(* Device side: _initialize_cluster, run by every thread of every block *)

Blocks == DOMAIN pc

\* the instructions _initialize_cluster emits for thread tidx, in program
\* order: the first one at the call, and the one after each
FirstInstr(t, stg) == IF t < stg THEN "init" ELSE "fence"

AfterArriveEarly(instr, t, stg) ==
    CASE instr = "init"   -> "fence"
      [] instr = "fence"  -> "arrive"
      [] instr = "arrive" -> IF t < stg THEN "tx" ELSE "done"
      [] instr = "tx"     -> "done"
AfterFenceLate(instr, t, stg) ==
    CASE instr = "init"   -> "tx"
      [] instr = "tx"     -> "fence"
      [] instr = "fence"  -> "arrive"
      [] instr = "arrive" -> "done"
After(instr, t, stg) ==
    CASE instr = "init"   -> "fence"
      [] instr = "fence"  -> IF t < stg THEN "tx" ELSE "arrive"
      [] instr = "tx"     -> "arrive"
      [] instr = "arrive" -> "done"

\* the instruction thread t of block b issues next
Instr(b, t) ==
    IF pc[b][t] = "call" THEN FirstInstr(t, stage) ELSE pc[b][t]

Running(b, t) ==
    /\ phase = "allocated"
    /\ b \in Blocks
    /\ pc[b][t] # "done"

\* if tidx < self.stage: mbarrier_init_arrive_cnt(mbar_ptr + tidx, 1)
InitArriveCnt(b, t) ==
    /\ Running(b, t)
    /\ ClusterEnabled(cluster_n)
    /\ Instr(b, t) = "init"
    /\ mbar' = [mbar EXCEPT ![b][t] =
                  [@ EXCEPT !.init_cnt = @ + 1, !.arrive_cnt = 1, !.init_by = t]]
    /\ pc' = [pc EXCEPT ![b][t] = After("init", t, stage)]
    /\ UNCHANGED <<objVars, planVars, fenced, arrived>>

\* mbarrier_init_fence()
InitFence(b, t) ==
    /\ Running(b, t)
    /\ ClusterEnabled(cluster_n)
    /\ Instr(b, t) = "fence"
    /\ fenced' = [fenced EXCEPT ![b][t] = TRUE]
    /\ pc' = [pc EXCEPT ![b][t] = After("fence", t, stage)]
    /\ UNCHANGED <<objVars, planVars, mbar, arrived>>

\* if tidx < self.stage: mbarrier_init_tx_bytes(mbar_ptr + tidx,
\*     num_warps * self.cluster_n * self.reduction_dtype.width // 8)
\* with num_warps the warp count of the planned layout
InitTxBytes(b, t) ==
    /\ Running(b, t)
    /\ ClusterEnabled(cluster_n)
    /\ Instr(b, t) = "tx"
    /\ mbar' = [mbar EXCEPT ![b][t] =
                  [@ EXCEPT !.tx_cnt = @ + 1, !.tx_by = t,
                            !.tx_bytes = TxBytes(NumWarps(tv_layout), cluster_n,
                                                 reduction_dtype)]]
    /\ pc' = [pc EXCEPT ![b][t] = After("tx", t, stage)]
    /\ UNCHANGED <<objVars, planVars, fenced, arrived>>

\* cute.arch.cluster_arrive_relaxed()
ClusterArriveRelaxed(b, t) ==
    /\ Running(b, t)
    /\ ClusterEnabled(cluster_n)
    /\ Instr(b, t) = "arrive"
    /\ arrived' = [arrived EXCEPT ![b][t] = TRUE]
    /\ pc' = [pc EXCEPT ![b][t] = After("arrive", t, stage)]
    /\ UNCHANGED <<objVars, planVars, mbar, fenced>>

\* _initialize_cluster when const_expr(self.cluster_n > 1) is false: the
\* call returns without emitting anything
InitializeClusterDisabled(b, t) ==
    /\ Running(b, t)
    /\ ~ClusterEnabled(cluster_n)
    /\ pc[b][t] = "call"
    /\ pc' = [pc EXCEPT ![b][t] = "done"]
    /\ UNCHANGED <<objVars, planVars, mbar, fenced, arrived>>

\* the row length of the kernels run on the device: the smallest 16-bit row
\* planned with 256 threads (8 warps)
DeviceNValues == {N_THRESHOLD + VecSize("Float16")}

InitDevice == TypeInit(DeviceNValues, {"Float16"}, ReductionDTypes)

\* any thread of any block takes its next step
SomeInitArriveCnt == \E b \in Blocks, t \in Tids : InitArriveCnt(b, t)
SomeInitFence == \E b \in Blocks, t \in Tids : InitFence(b, t)
SomeInitTxBytes == \E b \in Blocks, t \in Tids : InitTxBytes(b, t)
SomeClusterArriveRelaxed ==
    \E b \in Blocks, t \in Tids : ClusterArriveRelaxed(b, t)
SomeInitializeClusterDisabled ==
    \E b \in Blocks, t \in Tids : InitializeClusterDisabled(b, t)

NextDevice ==
    \/ SetClusterN(DeviceClusterSizes)
    \/ GetTvLayout
    \/ SmemSizeInBytes
    \/ AllocateReductionBufferAndMbar
    \/ SomeInitArriveCnt
    \/ SomeInitFence
    \/ SomeInitTxBytes
    \/ SomeClusterArriveRelaxed
    \/ SomeInitializeClusterDisabled

SpecDevice == InitDevice /\ [][NextDevice]_vars

----------------------------------------------------------------------------
(* Claims about the planning functions, checked under Spec *)

Planned == phase \in {"planned", "sized", "allocated"}
PlanReturned == phase \in {"planned", "sized", "allocated", "failed"}

\* the dimensions of the planned thread-value layout
colsPerBlock == tv_layout.shape[1][1]
threadsPerRow == tv_layout.shape[1][2]
vectorWidth == tv_layout.shape[2][1]
blocksPerRow == tv_layout.shape[2][2]
threadCount == IF N <= 16384 THEN 128 ELSE 256

\* C1: for every planned configuration the thread-value mapping
\* offset(i, j, k, l) = i + j*(vectorWidth*colsPerBlock) + k*colsPerBlock
\* + l*(colsPerBlock*vectorWidth*threadsPerRow) is what the layout computes,
\* and it is a bijection from the colsPerBlock*threadsPerRow*vectorWidth*
\* blocksPerRow coordinates onto {0, ..., capacity-1}: the image of the
\* coordinates is exactly that range, and there are capacity coordinates.
C1_TvLayoutBijection ==
    phase = "planned" =>
        LET cap == colsPerBlock * vectorWidth * blocksPerRow * threadsPerRow
            image == {TvOffset(tv_layout, i, j, k, l) :
                        i \in 0..(colsPerBlock - 1), j \in 0..(threadsPerRow - 1),
                        k \in 0..(vectorWidth - 1), l \in 0..(blocksPerRow - 1)}
        IN  /\ tv_layout.stride =
                 <<<<1, vectorWidth * colsPerBlock>>,
                   <<colsPerBlock, colsPerBlock * vectorWidth * threadsPerRow>>>>
            /\ TvSize(tv_layout) = cap
            /\ image = 0..(cap - 1)

\* C1 witness: the layout of the source's worked example (N = 512, 16-bit
\* elements, 32 threads per row) has been planned
C1_Witness ==
    /\ phase = "planned"
    /\ N = 512
    /\ tv_layout.shape = <<<<4, 32>>, <<8, 2>>>>
    /\ tv_layout.stride = <<<<1, 32>>, <<4, 1024>>>>

\* C2 (as claimed): the tile capacity colsPerBlock*vectorWidth*blocksPerRow*
\* threadsPerRow is >= N and < N + vectorWidth*threadsPerRow*clusterSize.
C2_CapacityBoundsAsClaimed ==
    Planned =>
        LET cap == colsPerBlock * vectorWidth * blocksPerRow * threadsPerRow
        IN  /\ cap >= N
            /\ cap < N + vectorWidth * threadsPerRow * cluster_n

\* C2 (amended): the row extent the cluster covers, vectorWidth*blocksPerRow*
\* threadsPerRow*clusterSize, is >= N and < N + vectorWidth*threadsPerRow*
\* clusterSize, with blocksPerRow the ceiling of (N / vectorWidth) /
\* (threadsPerRow*clusterSize) and colsPerBlock = threadCount / threadsPerRow;
\* the tile is (colsPerBlock, vectorWidth*blocksPerRow*threadsPerRow).
C2_RowExtentBounds ==
    Planned =>
        LET extent == vectorWidth * blocksPerRow * threadsPerRow * cluster_n
            chunks == N \div vectorWidth
        IN  /\ extent >= N
            /\ extent < N + vectorWidth * threadsPerRow * cluster_n
            /\ blocksPerRow * (threadsPerRow * cluster_n) >= chunks
            /\ (blocksPerRow - 1) * (threadsPerRow * cluster_n) < chunks
            /\ colsPerBlock * threadsPerRow = threadCount
            /\ tiler_mn = <<colsPerBlock,
                            vectorWidth * blocksPerRow * threadsPerRow>>

\* C2 witness: a plan for a cluster of two blocks, several rows per block,
\* and a row length that does not fill the last chunk
C2_Witness ==
    /\ Planned
    /\ cluster_n = 2
    /\ colsPerBlock > 1
    /\ blocksPerRow > 1
    /\ vectorWidth * blocksPerRow * threadsPerRow * cluster_n > N

\* C6 (as claimed): the reduction buffer has shape (warpCount / warpsPerRow,
\* (warpsPerRow, clusterSize), stageCount) with warpCount = (threads of the
\* outer thread dimension) / 32 and warpsPerRow = max(1, threadsPerRow / 32).
C6_BufferShapeAsClaimed ==
    phase = "allocated" =>
        LET warpCount == (colsPerBlock * threadsPerRow) \div 32
            warpsPerRow == IF threadsPerRow \div 32 >= 1
                           THEN threadsPerRow \div 32 ELSE 1
        IN  reduction_buffer.shape =
                <<warpCount \div warpsPerRow, <<warpsPerRow, cluster_n>>, stage>>

\* C7: the reduction buffer has warpCount*clusterSize*stageCount slots with
\* warpCount = threadCount / 32; its (warpsPerRow, clusterSize) axis has the
\* smallest strides (compact, starting at 1), then the warp-group axis, and
\* the stage axis the largest (one full stage of slots); the slots are mapped
\* one-to-one onto 0..slots-1, so two slots of different stages never share
\* an offset.
C7_BufferSlots ==
    phase = "allocated" =>
        LET B == reduction_buffer
            warpCount == threadCount \div 32
            perStage == warpCount * cluster_n
            slots == {<<w, r, m, s>> :
                        w \in 0..(B.shape[1] - 1), r \in 0..(B.shape[2][1] - 1),
                        m \in 0..(B.shape[2][2] - 1), s \in 0..(B.shape[3] - 1)}
        IN  /\ B.shape[1] * B.shape[2][1] * B.shape[2][2] * B.shape[3]
                 = warpCount * cluster_n * stage
            /\ B.shape[2][2] = cluster_n
            /\ B.shape[3] = stage
            /\ B.stride[2][1] = 1
            /\ B.stride[2][2] = B.shape[2][1]
            /\ B.stride[1] = B.shape[2][1] * B.shape[2][2]
            /\ B.stride[3] = perStage
            /\ \A x \in slots :
                   /\ BufOffset(B, x[1], x[2], x[3], x[4]) >= x[4] * perStage
                   /\ BufOffset(B, x[1], x[2], x[3], x[4]) < (x[4] + 1) * perStage
            /\ \A x, y \in slots :
                   x[4] # y[4] =>
                       BufOffset(B, x[1], x[2], x[3], x[4])
                           # BufOffset(B, y[1], y[2], y[3], y[4])

\* C7 witness: a buffer with two stages, two cluster members and more than
\* one warp per row group has been laid out
C7_Witness ==
    /\ phase = "allocated"
    /\ stage >= 2
    /\ cluster_n >= 2
    /\ reduction_buffer.shape[2][1] >= 2
    /\ reduction_buffer.shape[1] >= 2

\* the size _smem_size_in_bytes returns for the object's element and
\* accumulator types with the given stage count, cluster size, tile and
\* warp count
SizeFor(stg, c, t, nw) == SmemSize(dtype, reduction_dtype, stg, c, t, nw)
\* the tile _get_tv_layout plans for row length n and cluster size c with
\* the threads-per-row of the current plan
TileFor(n, c) == TilerMN(dtype, n, threadsPerRow, c)

\* C8 (as claimed): with the tile taken from _get_tv_layout, the size is
\* strictly increasing in stageCount and non-decreasing in warpCount, in
\* clusterSize and in N.
C8_SmemMonotoneAsClaimed ==
    phase = "sized" =>
        LET nw == (colsPerBlock * threadsPerRow) \div 32
        IN  /\ SizeFor(stage + 1, cluster_n, tiler_mn, nw) > smem_size
            /\ SizeFor(stage, cluster_n, tiler_mn, nw + 1) >= smem_size
            /\ SizeFor(stage, cluster_n, TileFor(N + vectorWidth, cluster_n), nw)
                 >= smem_size
            /\ SizeFor(stage, cluster_n + 1, TileFor(N, cluster_n + 1), nw)
                 >= smem_size

\* C8 (amended): the size is bytes(tile) + stageCount*warpCount*clusterSize*
\* accumulatorBytes + stageCount*8; it is strictly increasing in stageCount,
\* non-decreasing in warpCount and in N (tile taken from _get_tv_layout), and
\* non-decreasing in clusterSize for a fixed tile.
C8_SmemMonotone ==
    phase = "sized" =>
        LET nw == (colsPerBlock * threadsPerRow) \div 32
        IN  /\ smem_size = (tiler_mn[1] * tiler_mn[2] * Width(dtype)) \div 8
                           + stage * nw * cluster_n * (Width(reduction_dtype) \div 8)
                           + stage * 8
            /\ SizeFor(stage + 1, cluster_n, tiler_mn, nw) > smem_size
            /\ SizeFor(stage, cluster_n, tiler_mn, nw + 1) >= smem_size
            /\ SizeFor(stage, cluster_n, TileFor(N + vectorWidth, cluster_n), nw)
                 >= smem_size
            /\ SizeFor(stage, cluster_n + 1, tiler_mn, nw) >= smem_size

\* C8 witness: a size has been computed for the largest row length that
\* still gets 128 threads (the next row length gets 256)
C8_Witness ==
    /\ phase = "sized"
    /\ N = 16384
    /\ cluster_n = 2
    /\ smem_size > 0

\* C9: once _get_tv_layout has returned or aborted, a row length that is not
\* a multiple of 128 / (element bit width) has aborted it with the
\* divisibility assertion, no tile and no layout exist and the
\* threads-per-row policy was never consulted; a row length that is a
\* multiple has not raised the divisibility assertion.
C9_Divisibility ==
    PlanReturned =>
        IF N % (128 \div Width(dtype)) # 0
        THEN /\ phase = "failed"
             /\ error = "N not divisible by vector size"
             /\ tiler_mn = <<>>
             /\ tv_layout = NoLayout
             /\ policy_calls = 0
        ELSE /\ error # "N not divisible by vector size"
             /\ phase # "failed"

\* C9 witness: planning N = 510 with 16-bit elements (vector width 8) failed
C9_Witness ==
    /\ phase = "failed"
    /\ N = 510
    /\ Width(dtype) = 16

----------------------------------------------------------------------------
(* Claims about the barrier set-up, checked under SpecDevice *)

Launched == phase = "allocated"
AllDone(b) == \A t \in Tids : pc[b][t] = "done"

\* C3: when cluster size > 1, in every state in which every thread of every
\* block of the cluster has issued its cluster-arrive, each of the stageCount
\* barriers of every block has had its arrival count and its expected byte
\* count set.
C3_ArriveAfterSetup ==
    (Launched /\ cluster_n > 1 /\ \A b \in Blocks, t \in Tids : arrived[b][t]) =>
        \A b \in Blocks, s \in 0..(stage - 1) :
            /\ mbar[b][s].init_cnt >= 1
            /\ mbar[b][s].tx_cnt >= 1

\* C3 witness: both blocks of a two-block cluster with two stages have
\* arrived
C3_Witness ==
    /\ Launched
    /\ cluster_n = 2
    /\ stage = 2
    /\ \A b \in Blocks, t \in Tids : arrived[b][t]

\* C4: when cluster size > 1, every step of every thread respects the order
\* init (threads below stageCount only), fence, set of expected bytes
\* (threads below stageCount only), cluster-arrive: a thread fences only
\* after its own arrival-count init and before anything later; the expected
\* bytes of barrier s are set only after the arrival-count init of s and the
\* fence of the thread that initialized s; a thread arrives only after its
\* own fence and, below stageCount, after its set of expected bytes.
C4_StepOrder ==
    [][(Launched /\ Launched' /\ cluster_n > 1) =>
         \A b \in Blocks, t \in Tids :
            /\ (mbar'[b][t].init_cnt > mbar[b][t].init_cnt) =>
                   /\ t < stage
                   /\ ~fenced[b][t]
                   /\ mbar[b][t].tx_cnt = 0
                   /\ ~arrived[b][t]
            /\ (fenced'[b][t] /\ ~fenced[b][t]) =>
                   /\ t < stage => mbar[b][t].init_cnt = 1
                   /\ mbar[b][t].tx_cnt = 0
                   /\ ~arrived[b][t]
            /\ (mbar'[b][t].tx_cnt > mbar[b][t].tx_cnt) =>
                   /\ t < stage
                   /\ mbar[b][t].init_cnt = 1
                   /\ fenced[b][mbar[b][t].init_by]
                   /\ ~arrived[b][t]
            /\ (arrived'[b][t] /\ ~arrived[b][t]) =>
                   /\ fenced[b][t]
                   /\ t < stage => mbar[b][t].tx_cnt = 1]_vars

\* C4 witness: in a two-block cluster one barrier-owning thread has gone
\* through all four steps while another thread of its block has not fenced
C4_Witness ==
    /\ Launched
    /\ cluster_n = 2
    /\ stage = 2
    /\ \E b \in Blocks :
          /\ arrived[b][0] /\ mbar[b][0].tx_cnt = 1
          /\ mbar[b][1].init_cnt = 1 /\ ~fenced[b][1]

\* C5: when cluster size = 1, allocation yields the reduction buffer and no
\* barrier handle, and no thread ever performs a barrier operation: no
\* arrival-count init, no fence, no expected-bytes set, no cluster-arrive.
C5_NoBarrierWithoutCluster ==
    (Launched /\ cluster_n = 1) =>
        /\ mbar_ptr = [allocated |-> FALSE, num_elems |-> 0]
        /\ reduction_buffer # NoBuffer
        /\ \A b \in Blocks, t \in Tids :
              /\ ~fenced[b][t]
              /\ ~arrived[b][t]
              /\ mbar[b][t].init_cnt = 0
              /\ mbar[b][t].tx_cnt = 0

\* C5 witness: with cluster size 1 every thread has returned from
\* _initialize_cluster
C5_Witness ==
    /\ Launched
    /\ cluster_n = 1
    /\ Blocks = {0}
    /\ AllDone(0)

\* C10: when cluster size > 1, once every thread of a block has finished,
\* each barrier 0..stageCount-1 was initialized exactly once, by the thread
\* of that index, with arrival count 1, and had its expected byte count set
\* exactly once, by that thread, to warpCount*clusterSize*(accumulator
\* bytes), which is the per-stage reduction-scratch term of the computed
\* shared-memory size; no other barrier index was touched.
C10_BarriersInitializedOnce ==
    (Launched /\ cluster_n > 1) =>
        \A b \in Blocks :
            AllDone(b) =>
                \A i \in Tids :
                    IF i < stage
                    THEN /\ mbar[b][i].init_cnt = 1
                         /\ mbar[b][i].init_by = i
                         /\ mbar[b][i].arrive_cnt = 1
                         /\ mbar[b][i].tx_cnt = 1
                         /\ mbar[b][i].tx_by = i
                         /\ mbar[b][i].tx_bytes =
                              (threadCount \div 32) * cluster_n
                                  * (Width(reduction_dtype) \div 8)
                         /\ stage * mbar[b][i].tx_bytes =
                              smem_size
                              - (tiler_mn[1] * tiler_mn[2] * Width(dtype)) \div 8
                              - stage * 8
                    ELSE mbar[b][i] = FreshBarrier

\* C10 witness: a block of a two-block cluster with two stages and a 16-bit
\* accumulator has finished while its sibling has not started
C10_Witness ==
    /\ Launched
    /\ cluster_n = 2
    /\ stage = 2
    /\ Width(reduction_dtype) = 16
    /\ AllDone(0)
    /\ \A t \in Tids : pc[1][t] = "call"

====
